---- MODULE Spec2Model ----
(***************************************************************************)
(* The APSViz job supervisor: the control loop of JobSupervisor.run, the   *)
(* intake of run requests, the per-run state machine (handle_run,          *)
(* handle_job_error, handle_job_complete) and the cluster translator's     *)
(* create/delete operations.  The database, the cluster and the pause file *)
(* are the environment: their answers are drawn nondeterministically.      *)
(***************************************************************************)
EXTENDS Integers, Sequences, FiniteSets, TLC

(***************************************************************************)
(* Bounds of the model.                                                    *)
(***************************************************************************)
\* the most requests one get_new_runs() call returns
MaxBatch == 2

\* the most runs the database queues over the life of the supervisor
MaxRuns == 2

\* the most calls to the database or the cluster that fail (a statement
\* that yields -1, a job listing that raises)
MaxFaults == 1

\* the width of the supervisor_job_status column, counted in provenance
\* entries (the code cuts the value at 1024 characters)
ColumnSize == 6

\* MAX_NO_ACTIVITY_COUNT of the base configuration
MAX_NO_ACTIVITY_COUNT == 2
\* the times the database stops accepting connections
MaxOutages == 2
\* the back-offs of one call that are counted
MaxSleeps == 3
\* time.sleep(5) of get_db_connection
BACKOFF == 5

\* the most arguments of a COMMAND_LINE and of an entry of COMMAND_MATRIX
MaxArgs == 2
\* the most entries of a COMMAND_MATRIX
MaxEntries == 2

\* the run ids the database hands out
RunIds == {"7-a-b", "8-c-d"}

(***************************************************************************)
(* job_enums.py                                                            *)
(***************************************************************************)
S_NEW == "NEW"
S_RUNNING == "RUNNING"
S_ERROR == "ERROR"
JobStatus == {S_NEW, S_RUNNING, S_ERROR}

STAGING == "staging"
HAZUS == "hazus"
OBS_MOD_AST == "obs-mod-ast"
FINAL_STAGING == "final-staging"
DATABASE == "database"
OS == "os"
JT_ERROR == "error"
JT_COMPLETE == "complete"
JobType == {STAGING, HAZUS, OBS_MOD_AST, FINAL_STAGING, DATABASE, OS, JT_ERROR, JT_COMPLETE}

(***************************************************************************)
(* The job definitions the database holds: workflow type -> job type ->    *)
(* step template, as get_job_configs() returns them.                       *)
(*   simple: staging -> complete                                           *)
(*   clean : staging -> final-staging -> complete                          *)
(*   par   : hazus (PARALLEL obs-mod-ast) -> complete                      *)
(*   fan   : staging (PARALLEL obs-mod-ast) -> hazus -> final-staging      *)
(* Texts are sequences of their parts: JOB_NAME, DATA_VOLUME_NAME and       *)
(* SUB_PATH are concatenations, COMMAND_LINE and the entries of            *)
(* COMMAND_MATRIX are lists of arguments.                                  *)
(***************************************************************************)
Template(next, parallel) ==
    [NEXT_JOB_TYPE |-> next, PARALLEL |-> parallel,
     JOB_NAME |-> <<"job-">>, DATA_VOLUME_NAME |-> <<"vol-">>, SUB_PATH |-> <<"/sub">>,
     COMMAND_LINE |-> <<"python">>, COMMAND_MATRIX |-> <<<<"">>>>]

JobDefs ==
    ("simple" :> (STAGING :> Template(JT_COMPLETE, <<>>)))
 @@ ("clean"  :> (   (STAGING :> Template(FINAL_STAGING, <<>>))
                  @@ (FINAL_STAGING :> Template(JT_COMPLETE, <<>>))))
 @@ ("par"    :> (   (HAZUS :> Template(JT_COMPLETE, <<OBS_MOD_AST>>))
                  @@ (OBS_MOD_AST :> Template(JT_COMPLETE, <<>>))))
 @@ ("fan"    :> (   (STAGING :> Template(HAZUS, <<OBS_MOD_AST>>))
                  @@ (OBS_MOD_AST :> Template(JT_COMPLETE, <<>>))
                  @@ (HAZUS :> Template(FINAL_STAGING, <<>>))
                  @@ (FINAL_STAGING :> Template(JT_COMPLETE, <<>>))))

\* a workflow that starts a database server before staging:
\*   srv: database -> staging -> complete
ServerDefs ==
    "srv" :> (   (DATABASE :> Template(STAGING, <<>>))
              @@ (STAGING :> Template(JT_COMPLETE, <<>>)))

\* the database holds the definitions of one of the workflows
Catalogs == {[wf \in {workflow_type} |-> JobDefs[wf]] : workflow_type \in DOMAIN JobDefs}

\* what get_job_configs() returns when get_job_defs() gave no list (-1)
NoJobDefs == <<>>

WorkflowTypes == DOMAIN JobDefs \cup DOMAIN ServerDefs \cup {"unknown"}

\* get_first_job(workflow_type): the first step of a workflow, None when
\* the database knows no such workflow
None == "None"
first_job_of(workflow_type) ==
    CASE workflow_type = "simple" -> STAGING
      [] workflow_type = "clean"  -> STAGING
      [] workflow_type = "par"    -> HAZUS
      [] workflow_type = "fan"    -> STAGING
      [] workflow_type = "srv"    -> DATABASE
      [] OTHER -> None

(***************************************************************************)
(* Run requests as get_new_runs() returns them.  missing is the set of     *)
(* required run parameters that run_data lacks.                            *)
(***************************************************************************)
Requests ==
    [run_id : RunIds,
     workflow_type : WorkflowTypes,
     supervisor_job_status : {"new", "debug", "hold"},
     missing : {{}, {"downloadurl"}, {"instancename"}}]

(***************************************************************************)
(* Provenance entries.  status_prov is the sequence of the entries the     *)
(* code joins with ', '.                                                   *)
(***************************************************************************)
Accepted(job_prov) == <<job_prov, "run accepted">>
DuplicateRejected == <<<<"Duplicate run rejected.", "">>>>
LacksProperties(missing) == <<<<"Error - Run lacks the required run properties", missing>>>>
HandlerError == <<"Run handler error detected", "">>
ErrorNoCleanup == <<"error detected", "No cleanup occurred.">>
ErrorIncompleteCleanup == <<"error detected", "An incomplete cleanup may have occurred.">>
ErrorDetected == <<"error detected", "">>
RunComplete == <<"run complete", "">>

\* the sleeps of the base configuration
POLL_SHORT_SLEEP == "POLL_SHORT_SLEEP"
POLL_LONG_SLEEP == "POLL_LONG_SLEEP"

IsPrefix(s, t) == Len(s) <= Len(t) /\ SubSeq(t, 1, Len(s)) = s

VARIABLES
    job_defs,         \* the job definitions the database holds
    run_ids,          \* the run ids the database hands out
    pc,               \* position of the loop of run()
    run_list,         \* self.run_list
    k8s_job_configs,  \* self.k8s_job_configs
    pause_file,       \* the pause sentinel exists on the file system
    pause_mode,       \* self.debug_options['pause_mode']
    pending,          \* requests of the fetched batch not yet looked at
    idx,              \* position of the iterator of "for run in self.run_list"
    no_activity,      \* the activity flag of the tick
    no_activity_counter, \* the number of ticks in a row the flag stayed set
    idle_ticks,       \* the ticks in a row that ended with the flag set, up to MAX_NO_ACTIVITY_COUNT
    cluster,          \* the jobs on the cluster, <<run id, job type>>
    services,         \* the services on the cluster, <<run id, job type>>
    db,               \* supervisor_job_status column of the active runs, per run id
    db_prov,          \* the last value written from a run's status_prov, per run id
    queued,           \* the number of acceptable requests the database has handed out
    faults,           \* the number of calls that failed so far
    tick,             \* what this tick did so far
    last,             \* the step the loop took last
    pg                \* the database connection of PGUtils and the call that uses it

\* the state of the supervisor loop
loop == <<job_defs, run_ids, pc, run_list, k8s_job_configs, pause_file, pause_mode, pending, idx,
          no_activity, no_activity_counter, idle_ticks, cluster, services, db, db_prov, queued, faults, tick, last>>

vars == <<loop, pg>>

NoRun == [id |-> "none"]

(***************************************************************************)
(* pg_utils.py                                                             *)
(***************************************************************************)
\* value[:1024]
Truncate(value) == SubSeq(value, 1, IF Len(value) < ColumnSize THEN Len(value) ELSE ColumnSize)

\* a world is the part of the state a handler works on
World(run, w) == [w EXCEPT !.run = run]

\* update_job_status(run_id, value) with value = run['status_prov']
update_job_status(w) ==
    [w EXCEPT !.db[w.run.id] = Truncate(w.run.status_prov),
              !.db_prov[w.run.id] = Truncate(w.run.status_prov)]


\* the calls that go through exec_sql, and __init__, which connects
Calls == {"__init__", "get_job_defs", "get_new_runs", "update_job_status"}

\* the connection while the supervisor loop is modelled: no call is under
\* way; conn stands for self.conn and self.cursor: "none" when not set,
\* "open" when usable, "broken" when closed by the server
Connected ==
    [pc |-> "idle", call |-> "__init__", conn |-> "open", up |-> TRUE, good_conn |-> TRUE,
     sleeps |-> 0, waited |-> 0, outages |-> 0, ret_val |-> None]

\* check_db_connection(): there are a connection and a cursor, and
\* "SELECT version()" gives a row
check_db_connection(p) == p.conn = "open" /\ p.up

\* a faulty loop: the result of the second check is not looked at
recheck_ignored(p) == [p EXCEPT !.good_conn = check_db_connection(p), !.pc = "returned"]

\* get_db_connection(): the check after a connect
recheck(p) ==
    LET good_conn == check_db_connection(p)
    IN  [p EXCEPT !.good_conn = good_conn, !.pc = IF good_conn THEN "returned" ELSE "sleep"]

(***************************************************************************)
(* job_create.py                                                           *)
(***************************************************************************)
is_server_process(job_type) == job_type \in {OS, DATABASE}

\* what the cluster can answer to a create
CreateOutcomes == {"created", "api_exception", "config_error"}

\* job_response.status of a delete that went through
DeleteResponses == {"Success", "Failed"}

Job(run, job_type) == <<run.id, job_type>>

Event(run, kind, job_type) == [run EXCEPT !.hist = Append(@, <<kind, job_type>>)]

\* list.remove(x): the list without the first x
RECURSIVE remove(_, _)
remove(list, x) ==
    IF list = <<>> THEN <<>>
    ELSE IF Head(list) = x THEN Tail(list)
    ELSE <<Head(list)>> \o remove(Tail(list), x)

\* create_job_object: the command of the container of a COMMAND_MATRIX
\* entry
new_cmd_list(COMMAND_LINE, item) ==
    IF \E i \in 1..Len(COMMAND_LINE \o item) : (COMMAND_LINE \o item)[i] = ""
    THEN remove(COMMAND_LINE \o item, "")
    ELSE COMMAND_LINE \o item

\* create_job_object(run, job_type): the commands of the containers, one
\* for each entry of COMMAND_MATRIX
create_job_object(run_config) ==
    [i \in 1..Len(run_config.COMMAND_MATRIX) |->
        new_cmd_list(run_config.COMMAND_LINE, run_config.COMMAND_MATRIX[i])]

\* what the cluster can answer to the creation of the Service of a server
\* process, after the job was created
ServiceOutcomes == {"service_api_exception"}

\* execute(run, job_type) with create_job(): the job is created unless the
\* cluster raises an ApiException, and a job name that exists already is
\* refused by the cluster; then the Service of a server process is created,
\* and an ApiException of that call leaves the job on the cluster
execute(w, job_type, outcome) ==
    IF outcome \in {"created"} \cup ServiceOutcomes /\ Job(w.run, job_type) \notin w.cluster
    THEN IF is_server_process(job_type) /\ (outcome \in ServiceOutcomes \/ Job(w.run, job_type) \in w.services)
         THEN [w |-> [w EXCEPT !.cluster = @ \cup {Job(w.run, job_type)},
                               !.run = Event(@, "not created", job_type)],
               job_id |-> None]
         ELSE [w |-> [w EXCEPT !.cluster = @ \cup {Job(w.run, job_type)},
                               !.services = IF is_server_process(job_type)
                                            THEN @ \cup {Job(w.run, job_type)} ELSE @,
                               !.run = Event(@, "created", job_type)],
               job_id |-> "controller-uid"]
    ELSE [w |-> [w EXCEPT !.run = Event(@, "not created", job_type)],
          job_id |-> None]

\* a faulty delete: the job is reported deleted and left on the cluster
delete_job_kept(w, force, response) == [w |-> w, ret_val |-> "success"]

\* a faulty delete: force is not looked at, server processes are never
\* deleted
delete_job_unforced(w, force, response) ==
    LET run == w.run
        job_type == run.job_type
        job == Job(run, job_type)
        error == "Job delete error"
    IN  IF ~run.debug /\ run.status # S_ERROR
        THEN IF job_type \notin DOMAIN run.steps
             THEN [w |-> w, ret_val |-> error]
             ELSE IF ~is_server_process(job_type)
                  THEN IF job \notin w.cluster
                       THEN [w |-> w, ret_val |-> error]
                       ELSE [w |-> [w EXCEPT !.cluster = @ \ {job},
                                             !.run = Event(@, "deleted", job_type)],
                             ret_val |-> response]
                  ELSE [w |-> w, ret_val |-> "success"]
        ELSE [w |-> w, ret_val |-> "success"]

\* a faulty delete: the jobs of debug runs and of runs in error are deleted
\* as well
delete_job_always(w, force, response) ==
    LET run == w.run
        job_type == run.job_type
        job == Job(run, job_type)
        error == "Job delete error"
    IN  IF job_type \notin DOMAIN run.steps
        THEN [w |-> w, ret_val |-> error]
        ELSE IF ~is_server_process(job_type) \/ force
             THEN IF is_server_process(job_type) /\ job \notin w.services
                  THEN [w |-> w, ret_val |-> error]
                  ELSE IF job \notin w.cluster
                       THEN [w |-> [w EXCEPT !.services = @ \ {job}], ret_val |-> error]
                       ELSE [w |-> [w EXCEPT !.services = @ \ {job},
                                             !.cluster = @ \ {job},
                                             !.run = Event(@, "deleted", job_type)],
                             ret_val |-> response]
             ELSE [w |-> w, ret_val |-> "success"]

\* delete_job(run, force)
delete_job(w, force, response) ==
    LET run == w.run
        job_type == run.job_type
        job == Job(run, job_type)
        error == "Job delete error"
    IN  IF ~run.debug /\ run.status # S_ERROR
        THEN IF job_type \notin DOMAIN run.steps
             THEN [w |-> w, ret_val |-> error]
             ELSE IF ~is_server_process(job_type) \/ force
                  THEN IF is_server_process(job_type) /\ job \notin w.services
                       THEN [w |-> w, ret_val |-> error]
                       ELSE IF job \notin w.cluster
                            THEN [w |-> [w EXCEPT !.services = @ \ {job}], ret_val |-> error]
                            ELSE [w |-> [w EXCEPT !.services = @ \ {job},
                                                  !.cluster = @ \ {job},
                                                  !.run = Event(@, "deleted", job_type)],
                                  ret_val |-> response]
                  ELSE [w |-> w, ret_val |-> "success"]
        ELSE [w |-> w, ret_val |-> "success"]

delete_failed(job_del_status) == job_del_status = "{}" \/ job_del_status = "Failed"

(***************************************************************************)
(* job_find.py                                                             *)
(***************************************************************************)
\* what the cluster can answer to the job listing
FindOutcomes == {"absent", "active", "failed", "succeeded", "pending", "api_exception"}

\* find_job_info(run): job_found, job_status, pod_status
find_job_info(outcome) ==
    CASE outcome = "absent"    -> [job_found |-> FALSE, job_status |-> "Pending",  pod_status |-> ""]
      [] outcome = "active"    -> [job_found |-> TRUE,  job_status |-> "Running",  pod_status |-> ""]
      [] outcome = "failed"    -> [job_found |-> TRUE,  job_status |-> "Failed",   pod_status |-> "Failed"]
      [] outcome = "succeeded" -> [job_found |-> TRUE,  job_status |-> "Complete", pod_status |-> "Succeeded"]
      [] outcome = "pending"   -> [job_found |-> TRUE,  job_status |-> "Pending",  pod_status |-> ""]

\* the answers the cluster can give for a job: a job that is not listed is
\* either not on the cluster or was removed by its ttl_seconds_after_finished
FindPossible(w, outcome) ==
    outcome \in {"absent", "api_exception"} \/ Job(w.run, w.run.job_type) \in w.cluster


(***************************************************************************)
(* job_supervisor.py: the run state machine                                *)
(***************************************************************************)
\* what the environment answers during one handle_run call: the outcome of
\* the create of each job of the launch list, of the job lookup and of the
\* delete
Outcomes ==
    [create : [1..2 -> CreateOutcomes], find : FindOutcomes, delete : DeleteResponses]

SetStatus(w, status) == [w EXCEPT !.run.status = status]

\* a faulty "+=": the entry replaces the provenance
AssignProv(w, entry) == [w EXCEPT !.run.status_prov = <<entry>>]

\* run['status_prov'] += ', ...'
AppendProv(w, entry) == [w EXCEPT !.run.status_prov = Append(@, entry)]

\* get_base_command_line(run, job_type): the parameters of the job types
\* the function knows and whether the output path is extended; None for
\* the others (database, os)
get_base_command_line(run, job_type) ==
    CASE job_type = STAGING ->
             [command_line_params |-> <<"--inputURL", "downloadurl", "--isHurricane", "stormnumber",
                                        "--outputDir">>,
              extend_output_path |-> TRUE]
      [] job_type = HAZUS ->
             [command_line_params |-> <<"--downloadurl", "downloadurl", "--datadir", run.id>>,
              extend_output_path |-> FALSE]
      [] job_type = FINAL_STAGING ->
             [command_line_params |-> <<"--inputDir", run.id, "--outputDir", "/data", "--tarMeta", run.id>>,
              extend_output_path |-> FALSE]
      [] job_type = OBS_MOD_AST ->
             [command_line_params |-> <<"thredds_url", "gridname", run.id, run.id>>,
              extend_output_path |-> FALSE]
      [] OTHER -> [command_line_params |-> None, extend_output_path |-> FALSE]

\* the substitutions of k8s_create_run_config on a step template
populate(config, id, params) ==
    [config EXCEPT !.JOB_NAME = Append(@, id),
                   !.DATA_VOLUME_NAME = Append(@, id),
                   !.SUB_PATH = IF params.extend_output_path THEN <<"/", id>> \o @ ELSE @,
                   !.COMMAND_LINE = IF params.extend_output_path
                                    THEN Append(@ \o params.command_line_params, id)
                                    ELSE @ \o params.command_line_params]

\* a faulty configuration: the template of self.k8s_job_configs is
\* populated in place and shared with the run
k8s_create_run_config_shared(w, job_type) ==
    [w EXCEPT !.k8s_job_configs[w.run.workflow_type][job_type] =
                  populate(@, w.run.id, get_base_command_line(w.run, job_type)),
              !.run.steps =
                  (job_type :> populate(w.k8s_job_configs[w.run.workflow_type][job_type], w.run.id,
                                        get_base_command_line(w.run, job_type))) @@ @]

\* k8s_create_run_config(run, job_type, ...): the step template comes from
\* a new get_job_configs() call, is populated and saved in the run
k8s_create_run_config(w, job_type) ==
    [w EXCEPT !.run.steps =
                  (job_type :> populate(job_defs[w.run.workflow_type][job_type], w.run.id,
                                        get_base_command_line(w.run, job_type))) @@ @]

\* a faulty launch loop: it lacks the break on a NEXT_JOB_TYPE of complete
RECURSIVE create_jobs_all(_, _, _, _, _)
create_jobs_all(w, job_configs, job_type_list, i, o) ==
    IF i > Len(job_type_list)
    THEN [w |-> w, raised |-> FALSE]
    ELSE LET job_type == job_type_list[i]
         IN  IF job_type \in DOMAIN job_defs[w.run.workflow_type]
                    /\ get_base_command_line(w.run, job_type).command_line_params = None
             THEN \* COMMAND_LINE.extend(None) raises
                  [w |-> w, raised |-> TRUE]
             ELSE IF o.create[i] = "config_error" \/ job_type \notin DOMAIN job_defs[w.run.workflow_type]
             THEN [w |-> [w EXCEPT !.faults = @ + 1], raised |-> TRUE]
             ELSE LET ex == execute(k8s_create_run_config(w, job_type), job_type, o.create[i])
                      w2 == IF ex.job_id # None
                            THEN update_job_status(
                                     AppendProv(SetStatus(ex.w, S_RUNNING), <<job_type, "running">>))
                            ELSE SetStatus(ex.w, S_ERROR)
                  IN  create_jobs_all(w2, job_configs, job_type_list, i + 1, o)

\* the loop "for job_type in job_type_list" of handle_run, from position i
RECURSIVE create_jobs(_, _, _, _, _)
create_jobs(w, job_configs, job_type_list, i, o) ==
    IF i > Len(job_type_list)
    THEN [w |-> w, raised |-> FALSE]
    ELSE LET job_type == job_type_list[i]
         IN  IF job_type \in DOMAIN job_defs[w.run.workflow_type]
                    /\ get_base_command_line(w.run, job_type).command_line_params = None
             THEN \* COMMAND_LINE.extend(None) raises
                  [w |-> w, raised |-> TRUE]
             ELSE IF o.create[i] = "config_error" \/ job_type \notin DOMAIN job_defs[w.run.workflow_type]
             THEN [w |-> [w EXCEPT !.faults = @ + 1], raised |-> TRUE]
             ELSE LET ex == execute(k8s_create_run_config(w, job_type), job_type, o.create[i])
                      w2 == IF ex.job_id # None
                            THEN update_job_status(
                                     AppendProv(SetStatus(ex.w, S_RUNNING), <<job_type, "running">>))
                            ELSE SetStatus(ex.w, S_ERROR)
                  IN  IF job_configs[job_type].NEXT_JOB_TYPE = JT_COMPLETE
                      THEN [w |-> w2, raised |-> FALSE]
                      ELSE create_jobs(w2, job_configs, job_type_list, i + 1, o)

\* handle_run, status NEW
handle_new(w, job_configs, o) ==
    IF w.run.job_type \notin DOMAIN job_configs
    THEN [w |-> w, raised |-> TRUE]
    ELSE create_jobs(w, job_configs, <<w.run.job_type>> \o job_configs[w.run.job_type].PARALLEL, 1, o)

\* "prepare for next stage" of handle_run
next_stage(w) ==
    LET run == w.run
        next == run.steps[run.job_type].NEXT_JOB_TYPE
    IN  IF next \notin DOMAIN run.steps \/ next = STAGING
        THEN [w EXCEPT !.run.job_type = next,
                       !.run.steps = [jt \in DOMAIN @ \cap {STAGING} |-> @[jt]],
                       !.run.status = S_NEW]
        ELSE [w EXCEPT !.run.job_type = next]

\* handle_run, status RUNNING
handle_running(w0, o) ==
    LET job_type == w0.run.job_type
        job == Job(w0.run, job_type)
        info == find_job_info(o.find)
        \* a job that is not listed any more is gone from the cluster
        w == IF o.find = "absent" THEN [w0 EXCEPT !.cluster = @ \ {job}] ELSE w0
        w1 == IF info.job_found /\ info.job_status = "Failed"
              THEN AppendProv(w, <<job_type, "failed">>)
              ELSE w
    IN  IF job_type \notin DOMAIN w0.run.steps \/ o.find = "api_exception"
        THEN [w |-> [w0 EXCEPT !.faults = @ + 1], raised |-> TRUE]
        ELSE IF info.job_found
        THEN IF info.job_status \in {"Timeout", "Failed"}
             THEN LET del == delete_job(w1, FALSE, o.delete)
                  IN  [w |-> SetStatus([del.w EXCEPT !.run = Event(@, "failed", job_type)], S_ERROR),
                       raised |-> FALSE]
             ELSE IF info.job_status = "Complete" /\ info.pod_status # "Failed"
             THEN LET del == delete_job(w1, FALSE, o.delete)
                  IN  IF delete_failed(del.ret_val)
                      THEN [w |-> SetStatus([del.w EXCEPT !.run = Event(@, "delete failed", job_type)], S_ERROR),
                            raised |-> FALSE]
                      ELSE [w |-> next_stage(update_job_status(
                                      AppendProv([del.w EXCEPT !.run = Event(@, "completed", job_type)],
                                                 <<job_type, "complete">>))),
                            raised |-> FALSE]
             ELSE IF info.pod_status = "Failed"
             THEN LET del == delete_job(w1, FALSE, o.delete)
                  IN  [w |-> SetStatus([del.w EXCEPT !.run = Event(@, "failed", job_type)], S_ERROR),
                       raised |-> FALSE]
             ELSE [w |-> w1, raised |-> FALSE]
        ELSE [w |-> SetStatus([w1 EXCEPT !.run = Event(@, "not found", job_type)], S_ERROR), raised |-> FALSE]

\* handle_run(run): the world after the call, whether it raised, the
\* activity indicator it returns, and the world in which it looked the job
\* up, if it did
handle_run(w, o) ==
    IF w.run.workflow_type \notin DOMAIN k8s_job_configs
    THEN [w |-> w, raised |-> TRUE, no_activity |-> TRUE, inspects |-> FALSE, lookup |-> w]
    ELSE LET job_configs == k8s_job_configs[w.run.workflow_type]
             r1 == IF w.run.status = S_NEW
                   THEN handle_new(w, job_configs, o)
                   ELSE [w |-> w, raised |-> FALSE]
             r2 == IF ~r1.raised /\ r1.w.run.status = S_RUNNING
                   THEN handle_running(r1.w, o)
                   ELSE r1
             w3 == IF r2.w.run.status = S_ERROR
                   THEN [r2.w EXCEPT !.run.job_type = JT_ERROR]
                   ELSE r2.w
         IN  [w |-> IF r2.raised THEN r2.w ELSE w3,
              raised |-> r2.raised,
              no_activity |-> ~(w.run.status = S_NEW \/ r1.w.run.status = S_RUNNING),
              inspects |-> ~r1.raised /\ r1.w.run.status = S_RUNNING,
              lookup |-> r1.w]

\* a faulty error handling: final-staging is launched again after it failed
handle_job_error_retry(w) ==
    LET run == w.run
    IN  IF run.workflow_type \notin DOMAIN k8s_job_configs
        THEN [w |-> w, raised |-> TRUE]
        ELSE [w |-> update_job_status(
                 IF FINAL_STAGING \notin DOMAIN k8s_job_configs[run.workflow_type]
                 THEN [AppendProv(w, ErrorNoCleanup) EXCEPT !.run.job_type = JT_COMPLETE,
                                                            !.run.status = S_ERROR]
                 ELSE [AppendProv(w, ErrorDetected) EXCEPT !.run.job_type = FINAL_STAGING,
                                                           !.run.status = S_NEW]),
              raised |-> FALSE]

\* a faulty error handling: the start of the cleanup is not reported
handle_job_error_unreported(w) ==
    LET run == w.run
    IN  IF run.workflow_type \notin DOMAIN k8s_job_configs
        THEN [w |-> w, raised |-> TRUE]
        ELSE [w |-> update_job_status(
                 IF FINAL_STAGING \notin DOMAIN k8s_job_configs[run.workflow_type]
                 THEN [AppendProv(w, ErrorNoCleanup) EXCEPT !.run.job_type = JT_COMPLETE,
                                                            !.run.status = S_ERROR]
                 ELSE IF FINAL_STAGING \in DOMAIN run.steps
                 THEN [AppendProv(w, ErrorIncompleteCleanup) EXCEPT !.run.job_type = JT_COMPLETE,
                                                                    !.run.status = S_ERROR]
                 ELSE [w EXCEPT !.run.job_type = FINAL_STAGING, !.run.status = S_NEW]),
              raised |-> FALSE]

\* handle_job_error(run)
handle_job_error(w) ==
    LET run == w.run
    IN  IF run.workflow_type \notin DOMAIN k8s_job_configs
        THEN [w |-> w, raised |-> TRUE]
        ELSE [w |-> update_job_status(
                 IF FINAL_STAGING \notin DOMAIN k8s_job_configs[run.workflow_type]
                 THEN [AppendProv(w, ErrorNoCleanup) EXCEPT !.run.job_type = JT_COMPLETE,
                                                            !.run.status = S_ERROR]
                 ELSE IF FINAL_STAGING \in DOMAIN run.steps
                 THEN [AppendProv(w, ErrorIncompleteCleanup) EXCEPT !.run.job_type = JT_COMPLETE,
                                                                    !.run.status = S_ERROR]
                 ELSE [AppendProv(w, ErrorDetected) EXCEPT !.run.job_type = FINAL_STAGING,
                                                           !.run.status = S_NEW]),
              raised |-> FALSE]

\* a faulty completion: the end of the run is written but not appended
handle_job_complete_silent(w) == update_job_status(w)

\* handle_job_complete(run), up to the removal of the run
handle_job_complete(w) == update_job_status(AppendProv(w, RunComplete))

\* a faulty except branch: the provenance is not written to the database
run_handler_error_unwritten(w, o) ==
    LET del == delete_job(AppendProv(w, HandlerError), FALSE, o.delete)
    IN  [del.w EXCEPT !.run.job_type = JT_ERROR, !.run.status = S_ERROR]

\* the except branch around handle_run in run()
run_handler_error(w, o) ==
    LET del == delete_job(update_job_status(AppendProv(w, HandlerError)), FALSE, o.delete)
    IN  [del.w EXCEPT !.run.job_type = JT_ERROR, !.run.status = S_ERROR]


(***************************************************************************)
(* job_supervisor.py: intake and the loop of run()                         *)
(***************************************************************************)
NoSteps == [jt \in {} |-> Template(JT_COMPLETE, <<>>)]

Ids(list) == {list[i].id : i \in 1..Len(list)}

Remove(list, i) == SubSeq(list, 1, i - 1) \o SubSeq(list, i + 1, Len(list))

\* a faulty duplicate check: it overlooks the runs that have not started
check_for_duplicate_run_started(new_run_id) ==
    \E i \in 1..Len(run_list) : run_list[i].id = new_run_id /\ run_list[i].status # S_NEW

\* check_for_duplicate_run(new_run_id)
check_for_duplicate_run(new_run_id) == \E i \in 1..Len(run_list) : run_list[i].id = new_run_id

\* the world of a handler that works on run
W(run) ==
    [run |-> run, cluster |-> cluster, services |-> services, db |-> db, db_prov |-> db_prov,
     faults |-> faults, k8s_job_configs |-> k8s_job_configs]

Commit(w) ==
    /\ cluster' = w.cluster
    /\ services' = w.services
    /\ db' = w.db
    /\ db_prov' = w.db_prov
    /\ faults' = w.faults
    /\ k8s_job_configs' = w.k8s_job_configs

\* the column of a run that left the run list is not followed any further
CommitRemoved(w) ==
    /\ cluster' = w.cluster
    /\ services' = w.services
    /\ db' = [w.db EXCEPT ![w.run.id] = <<>>]
    /\ db_prov' = [w.db_prov EXCEPT ![w.run.id] = <<>>]
    /\ faults' = w.faults
    /\ k8s_job_configs' = w.k8s_job_configs

\* get_first_job(workflow_type)
get_first_job(workflow_type) ==
    IF workflow_type \in DOMAIN job_defs THEN first_job_of(workflow_type) ELSE None

\* the state of the loop after __init__
LoopStart ==
    /\ pc = "tick"
    /\ run_list = <<>>
    /\ k8s_job_configs = NoJobDefs
    /\ pause_file = FALSE
    /\ pause_mode = TRUE
    /\ pending = 0
    /\ idx = 1
    /\ no_activity = TRUE
    /\ no_activity_counter = 0
    /\ idle_ticks = 0
    /\ cluster = {}
    /\ services = {}
    /\ db = [id \in RunIds |-> <<>>]
    /\ db_prov = [id \in RunIds |-> <<>>]
    /\ queued = 0
    /\ faults = 0
    /\ tick = [paused |-> FALSE, fetched |-> FALSE, start |-> {}, handled |-> {}]
    /\ last = [op |-> "init", run |-> NoRun]

\* the state after __init__, but for the database's content
Start ==
    /\ LoopStart
    /\ pg = Connected

\* the database holds one workflow and queues requests under one run id
Init ==
    /\ job_defs \in Catalogs
    /\ run_ids = {"7-a-b"}
    /\ Start

\* the database holds the one-step workflow and queues requests under two
\* run ids
InitTwoRuns ==
    /\ job_defs \in {c \in Catalogs : DOMAIN c = {"simple"}}
    /\ run_ids = RunIds
    /\ Start

\* the database holds the one-step workflow and queues requests under one
\* run id
InitLive ==
    /\ job_defs \in {c \in Catalogs : DOMAIN c = {"simple"}}
    /\ run_ids = {"7-a-b"}
    /\ Start

\* the database holds the workflow with the database server and queues
\* requests under one run id
InitServer ==
    /\ job_defs = ServerDefs
    /\ run_ids = {"7-a-b"}
    /\ Start

\* get_incomplete_runs() up to the loop over the fetched runs: the refresh
\* of the job definitions and check_pause_status()
GetIncompleteRuns ==
    /\ pc = "tick"
    /\ UNCHANGED pg
    /\ \E defs \in {"list", "none", "malformed"} :
        IF defs = "malformed"
        THEN \* json.loads or JobType(x) raises in get_job_configs: run() ends
             /\ pc' = "crashed"
             /\ last' = [op |-> "crash", run |-> NoRun]
             /\ UNCHANGED <<job_defs, run_ids, run_list, k8s_job_configs, pause_file, pause_mode, pending, idx,
                            no_activity, no_activity_counter, idle_ticks, cluster, services, db, db_prov,
                            queued, faults, tick>>
        ELSE /\ defs = "none" => faults < MaxFaults
             /\ faults' = IF defs = "none" THEN faults + 1 ELSE faults
             /\ k8s_job_configs' = IF defs = "list" THEN job_defs ELSE NoJobDefs
             \* check_pause_status(): the pause file may have been created or
             \* removed since the last tick
             /\ pause_file' \in BOOLEAN
             /\ pause_mode' = pause_file'
             /\ \E n \in 0..MaxBatch :
                 /\ pause_file' => n = 0
                 /\ pending' = n
                 /\ pc' = IF n > 0 THEN "intake" ELSE "runs"
             /\ idx' = 1
             /\ no_activity' = TRUE
             /\ tick' = [paused |-> pause_file', fetched |-> ~pause_file',
                         start |-> Ids(run_list), handled |-> {}]
             /\ last' = [op |-> "get_incomplete_runs", run |-> NoRun]
             /\ UNCHANGED <<job_defs, run_ids, run_list, cluster, services, db, db_prov, queued,
                            no_activity_counter, idle_ticks>>

\* the new entry of the run list
NewRun(req, job_prov, job_type) ==
    [id |-> req.run_id, workflow_type |-> req.workflow_type,
     debug |-> (req.supervisor_job_status = "debug"),
     job_type |-> job_type, status |-> S_NEW, status_prov |-> <<Accepted(job_prov)>>,
     steps |-> NoSteps, hist |-> <<>>]

\* a faulty rejection: the request is reported and added to the run list
reject_duplicate_added(list, req) ==
    [op |-> "duplicate",
     run_list |-> Append(list, NewRun(req, "New", get_first_job(req.workflow_type))),
     writes |-> <<<<req.run_id, DuplicateRejected>>>>,
     raised |-> "instancename" \in req.missing]

\* the request repeats the id of an active run: the else branch of
\* "if not self.check_for_duplicate_run(run_id)"; the lookup of
\* run['run_data']['instancename'] raises when the parameter is missing
reject_duplicate(list, req) ==
    [op |-> "duplicate", run_list |-> list,
     writes |-> <<<<req.run_id, DuplicateRejected>>>>,
     raised |-> "instancename" \in req.missing]

\* a faulty rejection: the request that lacks parameters is not reported
reject_lacking_silent(list, req) ==
    [op |-> "lacks", run_list |-> list, writes |-> <<>>, raised |-> FALSE]

\* the request lacks required run parameters
reject_lacking(list, req) ==
    [op |-> "lacks", run_list |-> list,
     writes |-> <<<<req.run_id, LacksProperties(req.missing)>>>>,
     raised |-> FALSE]

\* the request is neither new nor debug, or its workflow has no first job
ignore_request(list, req) ==
    [op |-> "ignored", run_list |-> list, writes |-> <<>>, raised |-> FALSE]

\* the request is accepted
accept_run(list, req) ==
    LET job_prov == IF req.supervisor_job_status = "new" THEN "New" ELSE "New debug"
    IN  [op |-> "accepted",
         run_list |-> Append(list, NewRun(req, job_prov, get_first_job(req.workflow_type))),
         writes |-> <<<<req.run_id, <<Accepted(job_prov)>>>>>>,
         raised |-> FALSE]

\* the body of "for run in runs" of get_incomplete_runs(): the run list
\* after it, the values it writes to the database, whether it raised
intake(list, req) ==
    IF check_for_duplicate_run(req.run_id)
    THEN reject_duplicate(list, req)
    ELSE IF req.missing # {}
    THEN reject_lacking(list, req)
    ELSE IF req.supervisor_job_status \notin {"new", "debug"}
    THEN ignore_request(list, req)
    ELSE IF get_first_job(req.workflow_type) = None
    THEN ignore_request(list, req)
    ELSE accept_run(list, req)

\* one turn of "for run in runs" of get_incomplete_runs()
IntakeRequest ==
    /\ pc = "intake"
    /\ UNCHANGED pg
    /\ \E req \in Requests :
        LET run_id == req.run_id
            r == intake(run_list, req)
            list == r.run_list
            tracked == r.writes # <<>> /\ run_id \in Ids(list)
        IN  /\ req.run_id \in run_ids
            /\ req.workflow_type \in DOMAIN job_defs \cup {"unknown"}
            /\ list # run_list => queued < MaxRuns
            /\ queued' = IF list # run_list THEN queued + 1 ELSE queued
            /\ run_list' = list
            /\ pending' = pending - 1
            /\ db' = IF tracked THEN [db EXCEPT ![run_id] = Truncate(r.writes[1][2])] ELSE db
            /\ db_prov' = IF r.op = "accepted"
                          THEN [db_prov EXCEPT ![run_id] = Truncate(r.writes[1][2])]
                          ELSE db_prov
            /\ last' = [op |-> r.op,
                        run |-> IF r.op = "accepted" THEN list[Len(list)] ELSE [id |-> run_id],
                        writes |-> r.writes]
            \* an exception of get_incomplete_runs() ends run()
            /\ pc' = IF r.raised THEN "crashed" ELSE IF pending > 1 THEN "intake" ELSE "runs"
            /\ idx' = 1
            /\ no_activity' = TRUE
            /\ tick' = [tick EXCEPT !.start = Ids(list)]
            /\ UNCHANGED <<job_defs, run_ids, k8s_job_configs, pause_file, pause_mode, cluster, services, faults,
                           no_activity_counter, idle_ticks>>

\* the iterator of "for run in self.run_list" moves on
Advance(run) ==
    /\ idx' = idx + 1
    /\ tick' = [tick EXCEPT !.handled = @ \cup {run.id}]
    /\ UNCHANGED <<job_defs, run_ids, pc, pause_file, pause_mode, pending, queued,
                   no_activity_counter, idle_ticks>>

\* run(): the run at the iterator is COMPLETE
HandleComplete ==
    /\ pc = "runs" /\ idx <= Len(run_list)
    /\ UNCHANGED pg
    /\ LET run == run_list[idx]
           w == handle_job_complete(W(run))
       IN  /\ run.job_type = JT_COMPLETE
           /\ CommitRemoved(w)
           /\ run_list' = Remove(run_list, idx)
           /\ last' = [op |-> "complete", run |-> w.run, written |-> w.db[run.id]]
           /\ Advance(run)
           /\ UNCHANGED no_activity

\* run(): the run at the iterator is in ERROR
HandleError ==
    /\ pc = "runs" /\ idx <= Len(run_list)
    /\ UNCHANGED pg
    /\ LET run == run_list[idx]
           r == handle_job_error(W(run))
       IN  /\ run.job_type = JT_ERROR
           /\ IF r.raised
              THEN \* "Cleanup exception detected": the run is removed
                   /\ CommitRemoved(r.w)
                   /\ run_list' = Remove(run_list, idx)
                   /\ last' = [op |-> "cleanup_exception", run |-> r.w.run, written |-> <<>>]
              ELSE /\ Commit(r.w)
                   /\ run_list' = [run_list EXCEPT ![idx] = r.w.run]
                   /\ last' = [op |-> "error", run |-> r.w.run]
           /\ Advance(run)
           /\ UNCHANGED no_activity

\* of the outcomes that differ only in an answer the call never asks for,
\* one is enough
Relevant(run, o) ==
    /\ run.status # S_NEW => \A i \in 1..2 : o.create[i] = "created"
    /\ o.find # "succeeded" => o.delete = "Success"
    /\ (run.workflow_type \in DOMAIN k8s_job_configs
          /\ run.job_type \in DOMAIN k8s_job_configs[run.workflow_type]
          /\ k8s_job_configs[run.workflow_type][run.job_type].PARALLEL = <<>>)
        => o.create[2] = "created"

\* run(): handle_run for the run at the iterator
HandleRun ==
    /\ pc = "runs" /\ idx <= Len(run_list)
    /\ UNCHANGED pg
    /\ LET run == run_list[idx]
       IN  /\ run.job_type \notin {JT_COMPLETE, JT_ERROR}
           /\ \E o \in Outcomes :
               /\ Relevant(run, o)
               \* r is what handle_run returns, w the world after the except
               \* branch of run() if it raised
               /\ \E r \in {handle_run(W(run), o)} :
                   /\ IF r.inspects THEN FindPossible(r.lookup, o.find) ELSE o.find = "absent"
                   /\ \E w \in {IF r.raised THEN run_handler_error(r.w, o) ELSE r.w} :
                       /\ w.faults <= MaxFaults
                       /\ Commit(w)
                       /\ run_list' = [run_list EXCEPT ![idx] = w.run]
                       /\ no_activity' = IF r.raised THEN no_activity ELSE r.no_activity
                       /\ last' = [op |-> IF r.raised THEN "handler_exception" ELSE "handled",
                                   run |-> w.run,
                                   \* the status the launch loop of a NEW run left
                                   launched |-> IF run.status = S_NEW THEN r.lookup.run.status
                                                ELSE None,
                                   \* the lookup found the job Running or Pending
                                   polled |-> r.inspects /\ o.find \in {"active", "pending"}]
           /\ Advance(run)

\* a faulty cadence: activity does not clear the counter
sleep_timeout_kept(flag, counter) ==
    LET count == IF flag THEN counter + 1 ELSE counter
    IN  IF count >= MAX_NO_ACTIVITY_COUNT
        THEN [no_activity_counter |-> MAX_NO_ACTIVITY_COUNT - 1, sleep_timeout |-> POLL_LONG_SLEEP]
        ELSE [no_activity_counter |-> count, sleep_timeout |-> POLL_SHORT_SLEEP]

\* a faulty cadence: the long sleep starts one tick late
sleep_timeout_late(flag, counter) ==
    LET count == IF flag THEN counter + 1 ELSE 0
    IN  IF count > MAX_NO_ACTIVITY_COUNT
        THEN [no_activity_counter |-> MAX_NO_ACTIVITY_COUNT - 1, sleep_timeout |-> POLL_LONG_SLEEP]
        ELSE [no_activity_counter |-> count, sleep_timeout |-> POLL_SHORT_SLEEP]

\* run(): the counter of the ticks without activity and the sleep it selects
sleep_timeout(flag, counter) ==
    LET count == IF flag THEN counter + 1 ELSE 0
    IN  IF count >= MAX_NO_ACTIVITY_COUNT
        THEN [no_activity_counter |-> MAX_NO_ACTIVITY_COUNT - 1, sleep_timeout |-> POLL_LONG_SLEEP]
        ELSE [no_activity_counter |-> count, sleep_timeout |-> POLL_SHORT_SLEEP]

\* run(): the iteration is over, the loop sleeps
EndOfTick ==
    /\ pc = "runs" /\ idx > Len(run_list)
    /\ UNCHANGED pg
    /\ pc' = "tick"
    /\ idx' = 1
    /\ tick' = [tick EXCEPT !.start = {}, !.handled = {}]
    /\ LET poll == sleep_timeout(no_activity, no_activity_counter)
       IN  /\ no_activity_counter' = poll.no_activity_counter
           /\ last' = [op |-> "sleep", run |-> NoRun, sleep_timeout |-> poll.sleep_timeout]
    /\ idle_ticks' = IF no_activity
                     THEN IF idle_ticks < MAX_NO_ACTIVITY_COUNT THEN idle_ticks + 1 ELSE idle_ticks
                     ELSE 0
    /\ UNCHANGED <<job_defs, run_ids, run_list, k8s_job_configs, pause_file, pause_mode, pending,
                   no_activity, cluster, services, db, db_prov, queued, faults>>

(***************************************************************************)
(* pg_utils.py: a database call, step by step                              *)
(***************************************************************************)
\* PGUtils() is being constructed: no connection yet, get_db_connection
\* starts; the database may be down
InitDb ==
    /\ job_defs = [wf \in {"simple"} |-> JobDefs[wf]]
    /\ run_ids = {"7-a-b"}
    /\ LoopStart
    /\ \E up \in BOOLEAN :
           pg = [Connected EXCEPT !.pc = "check", !.conn = "none", !.up = up, !.good_conn = FALSE]

\* exec_sql(sql_stmt) starts with get_db_connection()
ExecSql ==
    /\ pg.pc = "idle"
    /\ \E call \in Calls \ {"__init__"} :
           pg' = [pg EXCEPT !.pc = "check", !.call = call, !.good_conn = FALSE,
                            !.sleeps = 0, !.waited = 0, !.ret_val = None]
    /\ UNCHANGED loop

\* get_db_connection(): the check at the head of the while loop
CheckDbConnection ==
    /\ pg.pc = "check"
    /\ LET good_conn == check_db_connection(pg)
       IN  pg' = [pg EXCEPT !.good_conn = good_conn,
                            !.pc = IF good_conn THEN "returned" ELSE "connect"]
    /\ UNCHANGED loop

\* get_db_connection(): psycopg2.connect and the cursor; an exception
\* leaves the old connection object in place
Connect ==
    /\ pg.pc = "connect"
    /\ pg' = IF pg.up
             THEN [pg EXCEPT !.conn = "open", !.pc = "recheck"]
             ELSE [pg EXCEPT !.good_conn = FALSE, !.pc = "sleep"]
    /\ UNCHANGED loop

\* get_db_connection(): the check after the connect
Recheck ==
    /\ pg.pc = "recheck"
    /\ pg' = recheck(pg)
    /\ UNCHANGED loop

\* get_db_connection(): 'DB Connection failed. Retrying...', time.sleep(5)
BackOff ==
    /\ pg.pc = "sleep"
    /\ pg' = [pg EXCEPT !.pc = "check",
                        !.sleeps = IF @ < MaxSleeps THEN @ + 1 ELSE @,
                        !.waited = IF pg.sleeps < MaxSleeps THEN @ + BACKOFF ELSE @]
    /\ UNCHANGED loop

\* exec_sql after get_db_connection returned: the statement gives a row,
\* or -1 for no row or an exception; __init__ executes nothing
Execute ==
    /\ pg.pc = "returned"
    /\ \E ret_val \in {"row", "-1"} :
           /\ (pg.call = "__init__" \/ ~check_db_connection(pg)) => ret_val = "-1"
           /\ pg' = [pg EXCEPT !.pc = "idle", !.ret_val = IF pg.call = "__init__" THEN None ELSE ret_val]
    /\ UNCHANGED loop

\* the database stops accepting connections and closes the open ones
DbDown ==
    /\ pg.up /\ pg.outages < MaxOutages
    /\ pg' = [pg EXCEPT !.up = FALSE, !.outages = @ + 1,
                        !.conn = IF @ = "open" THEN "broken" ELSE @]
    /\ UNCHANGED loop

\* the database accepts connections again
DbUp ==
    /\ ~pg.up
    /\ pg' = [pg EXCEPT !.up = TRUE]
    /\ UNCHANGED loop

(***************************************************************************)
(* job_create.py: delete_job as a function of the run and the cluster      *)
(***************************************************************************)
DeletedTypes == {STAGING, DATABASE, OS}

\* the runs delete_job is called for: debug or not, in any status, with or
\* without the record of the current step
DeleteRuns ==
    {[NewRun([run_id |-> "7-a-b", workflow_type |-> "srv", supervisor_job_status |-> status,
              missing |-> {}],
             IF status = "debug" THEN "New debug" ELSE "New", job_type)
         EXCEPT !.status = run_status,
                !.steps = IF recorded THEN job_type :> Template(JT_COMPLETE, <<>>) ELSE NoSteps] :
        status \in {"new", "debug"}, job_type \in DeletedTypes, run_status \in JobStatus,
        recorded \in BOOLEAN}

\* a run and a cluster on which any of its jobs and services may be present
InitDelete ==
    /\ job_defs = ServerDefs
    /\ run_ids = {"7-a-b"}
    /\ pc = "delete_job"
    /\ run_list \in {<<run>> : run \in DeleteRuns}
    /\ cluster \in SUBSET {Job([id |-> "7-a-b"], job_type) : job_type \in DeletedTypes}
    /\ services \in SUBSET {Job([id |-> "7-a-b"], job_type) : job_type \in {DATABASE, OS}}
    /\ k8s_job_configs = ServerDefs
    /\ pause_file = FALSE
    /\ pause_mode = FALSE
    /\ pending = 0
    /\ idx = 1
    /\ no_activity = TRUE
    /\ no_activity_counter = 0
    /\ idle_ticks = 0
    /\ db = [id \in RunIds |-> <<>>]
    /\ db_prov = [id \in RunIds |-> <<>>]
    /\ queued = 0
    /\ faults = 0
    /\ tick = [paused |-> FALSE, fetched |-> FALSE, start |-> {}, handled |-> {}]
    /\ last = [op |-> "init", run |-> NoRun]
    /\ pg = Connected

\* delete_job(run, force)
DeleteJob ==
    /\ pc = "delete_job"
    /\ \E force \in BOOLEAN, response \in DeleteResponses :
           LET r == delete_job(W(run_list[1]), force, response)
           IN  /\ cluster' = r.w.cluster
               /\ services' = r.w.services
               /\ run_list' = <<r.w.run>>
               /\ last' = [op |-> "delete_job", run |-> r.w.run, force |-> force,
                           response |-> response, ret_val |-> r.ret_val]
    /\ pc' = "deleted"
    /\ UNCHANGED <<job_defs, run_ids, k8s_job_configs, pause_file, pause_mode, pending, idx, no_activity,
                   no_activity_counter, idle_ticks, db, db_prov, queued, faults, tick, pg>>

NextDelete == DeleteJob

(***************************************************************************)
(* job_create.py: execute as a function of the run and the cluster         *)
(***************************************************************************)
\* the arguments a command holds
Args == {"", "-x"}

Lists(S, n) == UNION {[1..k -> S] : k \in 0..n}

\* the step records execute is called with: the template of the step with
\* any COMMAND_LINE and COMMAND_MATRIX
RunConfigs ==
    {[Template(JT_COMPLETE, <<>>) EXCEPT !.COMMAND_LINE = COMMAND_LINE, !.COMMAND_MATRIX = COMMAND_MATRIX] :
        COMMAND_LINE \in Lists(Args, MaxArgs),
        COMMAND_MATRIX \in Lists(Lists(Args, MaxArgs), MaxEntries) \ {<<>>}}

\* a NEW run with the record of its current step, a job or a server
\* process, and a cluster that may hold the job or the Service of the step
InitExecute ==
    /\ job_defs = ServerDefs
    /\ run_ids = {"7-a-b"}
    /\ pc = "execute"
    /\ \E job_type \in {STAGING, DATABASE}, run_config \in RunConfigs :
           run_list = <<[NewRun([run_id |-> "7-a-b", workflow_type |-> "srv",
                                 supervisor_job_status |-> "new", missing |-> {}], "New", job_type)
                            EXCEPT !.steps = job_type :> run_config]>>
    /\ cluster \in SUBSET {Job([id |-> "7-a-b"], run_list[1].job_type)}
    /\ services \in SUBSET {Job([id |-> "7-a-b"], job_type) : job_type \in {run_list[1].job_type} \cap {DATABASE}}
    /\ k8s_job_configs = ServerDefs
    /\ pause_file = FALSE
    /\ pause_mode = FALSE
    /\ pending = 0
    /\ idx = 1
    /\ no_activity = TRUE
    /\ no_activity_counter = 0
    /\ idle_ticks = 0
    /\ db = [id \in RunIds |-> <<>>]
    /\ db_prov = [id \in RunIds |-> <<>>]
    /\ queued = 0
    /\ faults = 0
    /\ tick = [paused |-> FALSE, fetched |-> FALSE, start |-> {}, handled |-> {}]
    /\ last = [op |-> "init", run |-> NoRun]
    /\ pg = Connected

\* execute(run, job_type): create_job_object, then create_job
ExecuteJob ==
    /\ pc = "execute"
    /\ \E outcome \in CreateOutcomes \cup ServiceOutcomes :
           /\ outcome \in ServiceOutcomes => is_server_process(run_list[1].job_type)
           \* a client that cannot be configured makes execute raise
           /\ outcome # "config_error"
           /\ cluster' = execute(W(run_list[1]), run_list[1].job_type, outcome).w.cluster
           /\ services' = execute(W(run_list[1]), run_list[1].job_type, outcome).w.services
           /\ run_list' = <<execute(W(run_list[1]), run_list[1].job_type, outcome).w.run>>
           /\ last' = [op |-> "execute",
                       run |-> execute(W(run_list[1]), run_list[1].job_type, outcome).w.run,
                       containers |-> create_job_object(run_list[1].steps[run_list[1].job_type]),
                       job_id |-> execute(W(run_list[1]), run_list[1].job_type, outcome).job_id]
    /\ pc' = "executed"
    /\ UNCHANGED <<job_defs, run_ids, k8s_job_configs, pause_file, pause_mode, pending, idx, no_activity,
                   no_activity_counter, idle_ticks, db, db_prov, queued, faults, tick, pg>>

NextExecute == ExecuteJob

NextDb ==
    \/ ExecSql
    \/ CheckDbConnection
    \/ Connect
    \/ Recheck
    \/ BackOff
    \/ Execute
    \/ DbDown
    \/ DbUp

Next ==
    \/ GetIncompleteRuns
    \/ IntakeRequest
    \/ HandleComplete
    \/ HandleError
    \/ HandleRun
    \/ EndOfTick

Spec == Init /\ [][Next]_vars

\* a database call runs to its end when the steps of the supervisor's one
\* thread are taken, and the database comes back after an outage
SpecDb ==
    /\ InitDb /\ [][NextDb]_vars
    /\ WF_vars(CheckDbConnection) /\ WF_vars(Connect) /\ WF_vars(Recheck)
    /\ WF_vars(BackOff) /\ WF_vars(Execute) /\ WF_vars(DbUp)

SpecDelete == InitDelete /\ [][NextDelete]_vars

SpecExecute == InitExecute /\ [][NextExecute]_vars

SpecServer == InitServer /\ [][Next]_vars

SpecTwoRuns == InitTwoRuns /\ [][Next]_vars

\* the one thread of the supervisor keeps taking the steps of the loop: a
\* tick that can start starts, a request of the fetched batch is looked at,
\* a run at the iterator in COMPLETE or ERROR is handled, the tick ends
SpecLive ==
    /\ InitLive /\ [][Next]_vars
    /\ WF_vars(GetIncompleteRuns) /\ WF_vars(IntakeRequest)
    /\ WF_vars(HandleComplete) /\ WF_vars(HandleError) /\ WF_vars(EndOfTick)


(***************************************************************************)
(* Properties                                                              *)
(***************************************************************************)
Active(id) == \E i \in 1..Len(run_list) : run_list[i].id = id

HasEvent(run, kind, job_type) == \E i \in 1..Len(run.hist) : run.hist[i] = <<kind, job_type>>

Removed == last.op \in {"complete", "cleanup_exception"}

\* C1: whatever get_new_runs returns, in one batch or over the ticks, the
\* run list never holds two entries with the same id
C1_UniqueIds ==
    \A i, j \in 1..Len(run_list) : run_list[i].id = run_list[j].id => i = j

\* C1 witness: a request that repeats the id of an active run was rejected
\* while two runs are active
C1_Witness == last.op = "duplicate" /\ Len(run_list) = 2

\* C8: no exception of a tick leaves the loop of run()
C8_LoopNeverStops == pc # "crashed"

\* C9: when handle_run raises, the run gets the 'Run handler error detected'
\* entry, which is written, its current job is deleted without force, its
\* job type and status become ERROR, the loop goes on with the next run and
\* no other run changes
C9_HandlerException ==
    [][last'.op = "handler_exception" =>
        LET before == run_list[idx]
            after == run_list'[idx]
            job == Job(before, before.job_type)
        IN  /\ pc = "runs" /\ pc' = "runs"
            /\ idx' = idx + 1
            /\ Len(run_list') = Len(run_list)
            /\ \A j \in 1..Len(run_list) : j # idx => run_list'[j] = run_list[j]
            /\ after.id = before.id
            /\ after.job_type = JT_ERROR /\ after.status = S_ERROR
            /\ IsPrefix(before.status_prov, after.status_prov)
            /\ after.status_prov[Len(after.status_prov)] = HandlerError
            /\ db'[before.id] = Truncate(after.status_prov)
            /\ \A id \in RunIds : id # before.id => db'[id] = db[id]
            /\ cluster \ cluster' \subseteq {job}
            /\ (before.status = S_RUNNING /\ ~before.debug /\ ~is_server_process(before.job_type))
                   => job \notin cluster'
            /\ is_server_process(before.job_type) => (job \in cluster' <=> job \in cluster)
    ]_vars

\* C9 witness: handle_run raised for the first of two runs and the second
\* is the next to be handled
C9_Witness == last.op = "handler_exception" /\ Len(run_list) = 2 /\ idx = 2 /\ pc = "runs"

\* C10: in a tick with the pause file present get_new_runs is not called,
\* the run list gains no entry and every run that was in the list is
\* handled; in a tick without the pause file the intake is performed
C10_PauseSemantics ==
    /\ (pc \in {"intake", "runs"} /\ tick.paused) =>
           /\ ~tick.fetched
           /\ pending = 0
           /\ Ids(run_list) \subseteq tick.start
    /\ (pc = "runs" /\ idx > Len(run_list) /\ tick.paused) => tick.start \subseteq tick.handled
    /\ (pc \in {"intake", "runs"} /\ ~tick.paused) => tick.fetched

\* the runs whose record the state holds: the active ones and the one the
\* last step removed
Observed == {run_list[i] : i \in 1..Len(run_list)} \cup (IF Removed THEN {last.run} ELSE {})

Launches(run, job_type) ==
    {i \in 1..Len(run.hist) : run.hist[i] \in {<<"created", job_type>>, <<"not created", job_type>>}}

Creations(run) == {i \in 1..Len(run.hist) : run.hist[i][1] = "created"}

\* the jobs a run created that are on the cluster
Live(run) == {job_type \in JobType : HasEvent(run, "created", job_type) /\ Job(run, job_type) \in cluster}

\* the ways a step fails: the job is reported Failed, is not found, its
\* delete fails, or it could not be created
Failures == {"failed", "not found", "delete failed", "not created"}

HadFailure(run) == \E i \in 1..Len(run.hist) : run.hist[i][1] \in Failures

\* sub is a subsequence of seq
RECURSIVE InOrder(_, _)
InOrder(seq, sub) ==
    IF sub = <<>> THEN TRUE
    ELSE IF seq = <<>> THEN FALSE
    ELSE IF Head(seq) = Head(sub) THEN InOrder(Tail(seq), Tail(sub))
    ELSE InOrder(Tail(seq), sub)

\* a step other than final-staging failed and final-staging was not
\* launched before
FailedBeforeFinalStaging(run) ==
    \E i \in 1..Len(run.hist) :
        /\ run.hist[i][1] \in Failures
        /\ run.hist[i][2] # FINAL_STAGING
        /\ \A j \in 1..(i - 1) : run.hist[j][2] # FINAL_STAGING

\* C2: a run of a workflow with a final-staging step of which an earlier
\* step failed has launched final-staging exactly once when it is removed
C2_FinalStagingOnce ==
    Removed =>
        ((FINAL_STAGING \in DOMAIN job_defs[last.run.workflow_type] /\ FailedBeforeFinalStaging(last.run))
            => Cardinality(Launches(last.run, FINAL_STAGING)) = 1)

\* C3 as stated: every value written to the column of an active run extends
\* the value written before
C3_AllWritesPrefixOrdered ==
    [][\A id \in RunIds :
        /\ (Active(id) /\ Active(id)') => IsPrefix(db[id], db'[id])
        /\ (Active(id) /\ last'.op = "complete" /\ last'.run.id = id) => IsPrefix(db[id], last'.written)
    ]_vars

\* C3: the values written from a run's status_prov extend one another, up
\* to the 'run complete' value; the one other value written for an active
\* run is 'Duplicate run rejected.'
C3_ProvWritesPrefixOrdered ==
    [][\A id \in RunIds :
        /\ (Active(id) /\ Active(id)') =>
               /\ IsPrefix(db_prov[id], db_prov'[id])
               /\ db'[id] # db[id] => db'[id] \in {db_prov'[id], Truncate(DuplicateRejected)}
        /\ (Active(id) /\ last'.op = "complete" /\ last'.run.id = id) => IsPrefix(db_prov[id], last'.written)
    ]_vars

\* C3 witness: a run whose provenance reached the width of the column is
\* active and a duplicate of it was rejected
C3_Witness ==
    \E i \in 1..Len(run_list) :
        /\ Len(run_list[i].status_prov) > ColumnSize
        /\ db_prov[run_list[i].id] = Truncate(run_list[i].status_prov)
        /\ db[run_list[i].id] = Truncate(DuplicateRejected)

\* run['status_prov'].find('error') == -1
ErrorFree(run) ==
    \A i \in 1..Len(run.status_prov) :
        run.status_prov[i] \notin {HandlerError, ErrorDetected, ErrorNoCleanup, ErrorIncompleteCleanup}

\* C4: when a run that is neither a debug run nor in error is handled as
\* COMPLETE and removed, no job it created is left on the cluster
C4_NoJobsAfterComplete ==
    (last.op = "complete" /\ ~last.run.debug /\ last.run.status # S_ERROR /\ ErrorFree(last.run))
        => Live(last.run) = {}

\* C5: the jobs of an active run that is neither a debug run nor in error
\* that are on the cluster belong to its current step, to the parallel
\* steps launched with it, or to server processes that completed
C5_LiveJobs ==
    \A i \in 1..Len(run_list) :
        LET run == run_list[i]
            siblings == IF run.job_type \in DOMAIN run.steps
                        THEN {run.steps[run.job_type].PARALLEL[k] :
                                 k \in 1..Len(run.steps[run.job_type].PARALLEL)}
                        ELSE {}
        IN  (~run.debug /\ run.status # S_ERROR /\ ErrorFree(run)) =>
                Live(run) \subseteq
                    {run.job_type} \cup siblings
                    \cup {job_type \in JobType :
                              is_server_process(job_type) /\ HasEvent(run, "completed", job_type)}

\* C6: after a step with a NEXT_JOB_TYPE other than complete completed, the
\* next job the run launches is the one of that NEXT_JOB_TYPE
C6_NextStepFollows ==
    \A run \in Observed :
        \A i \in 1..Len(run.hist) :
            LET step == run.hist[i][2]
                next == job_defs[run.workflow_type][step].NEXT_JOB_TYPE
                later == {j \in (i + 1)..Len(run.hist) : run.hist[j][1] \in {"created", "not created"}}
            IN  (run.hist[i][1] = "completed" /\ next # JT_COMPLETE /\ later # {})
                    => run.hist[CHOOSE j \in later : \A k \in later : j <= k][2] = next

\* C7 as stated: the tick that launches a step with a parallel step, both
\* leading to complete, creates the jobs of the two
C7_TwoJobsLaunched ==
    \A run \in Observed :
        (run.workflow_type = "par" /\ HasEvent(run, "created", HAZUS)) => HasEvent(run, "created", OBS_MOD_AST)

\* C7: the tick that launches a step with a parallel step, both leading to
\* complete, launches the job of the step only, and a run that is not a
\* debug run is removed only when that job is gone from the cluster
C7_OneJobLaunched ==
    \A run \in Observed :
        run.workflow_type = "par" =>
            /\ Launches(run, OBS_MOD_AST) = {}
            /\ Cardinality(Creations(run)) <= 1
            /\ (Removed /\ run = last.run /\ ~run.debug) => Live(run) = {}

\* C7 witness: a run of the workflow created the job of the step, the job
\* completed and was deleted, and the run was removed
C7_Witness ==
    /\ last.op = "complete" /\ last.run.workflow_type = "par" /\ ~last.run.debug
    /\ HasEvent(last.run, "created", HAZUS)
    /\ HasEvent(last.run, "completed", HAZUS)
    /\ HasEvent(last.run, "deleted", HAZUS)

\* C11: the loop sleeps POLL_LONG_SLEEP at the end of a tick exactly when
\* the tick is at least the MAX_NO_ACTIVITY_COUNT-th tick in a row without
\* activity, and POLL_SHORT_SLEEP otherwise; a tick with activity starts
\* the count anew
C11_PollCadence ==
    last.op = "sleep" =>
        /\ last.sleep_timeout \in {POLL_SHORT_SLEEP, POLL_LONG_SLEEP}
        /\ last.sleep_timeout = POLL_LONG_SLEEP <=> idle_ticks >= MAX_NO_ACTIVITY_COUNT
        /\ ~no_activity => (idle_ticks = 0 /\ no_activity_counter = 0)

\* C11 witness: the loop sleeps long again after a run was worked on and
\* left the list
C11_Witness ==
    /\ last.op = "sleep" /\ last.sleep_timeout = POLL_LONG_SLEEP
    /\ queued > 0 /\ run_list = <<>>

\* C12: a request with the id of an active run causes one update of the
\* database, with 'Duplicate run rejected.'; the run list and the record
\* of the active run stay as they are
C12_DuplicateRejected ==
    [][last'.op = "duplicate" =>
        LET id == last'.run.id
        IN  /\ Active(id)
            /\ last'.writes = <<<<id, DuplicateRejected>>>>
            /\ db' = [db EXCEPT ![id] = DuplicateRejected]
            /\ run_list' = run_list
            /\ db_prov' = db_prov
            /\ cluster' = cluster /\ services' = services
    ]_vars

\* C12 witness: a duplicate of a run that is RUNNING was rejected and the
\* loop goes on
C12_Witness ==
    /\ last.op = "duplicate" /\ pc # "crashed"
    /\ \E i \in 1..Len(run_list) :
           /\ run_list[i].id = last.run.id
           /\ run_list[i].status = S_RUNNING
           /\ Len(run_list[i].status_prov) >= 2

C14_FailedStagingProvenance ==
    \A run \in Observed :
        (run.workflow_type = "clean" /\ HasEvent(run, "failed", STAGING)
            /\ HasEvent(run, "completed", FINAL_STAGING)) =>
            /\ InOrder(run.status_prov,
                       <<<<STAGING, "failed">>, ErrorDetected,
                         <<FINAL_STAGING, "running">>, <<FINAL_STAGING, "complete">>>>)
            /\ run.job_type = JT_COMPLETE
            /\ (Removed /\ run = last.run) =>
                   /\ last.op = "complete"
                   /\ InOrder(run.status_prov,
                              <<<<STAGING, "failed">>, ErrorDetected, <<FINAL_STAGING, "running">>,
                                <<FINAL_STAGING, "complete">>, RunComplete>>)
                   /\ run.status_prov[Len(run.status_prov)] = RunComplete
                   /\ run.id \notin Ids(run_list)

\* C14 witness: such a run was removed
C14_Witness ==
    /\ last.op = "complete" /\ last.run.workflow_type = "clean"
    /\ HasEvent(last.run, "failed", STAGING)
    /\ HasEvent(last.run, "completed", FINAL_STAGING)

\* C15: every run that encountered a step failure has status ERROR at the
\* moment it is removed from the run list
C15_FailedRunsEndInError ==
    (Removed /\ HadFailure(last.run)) => last.run.status = S_ERROR

\* the number of events of a kind in the history of a run
Count(run, kind) == Cardinality({i \in 1..Len(run.hist) : run.hist[i][1] = kind})

\* the provenance of a run of the single-step workflow whose job completed
StagingCompleted(run) ==
    <<Accepted(IF run.debug THEN "New debug" ELSE "New"),
      <<STAGING, "running">>, <<STAGING, "complete">>>>

\* C16 as stated: a run of the single-step workflow whose job completes
\* has one job created and one job deleted when it is removed
C16_OneCreatedOneDeleted ==
    (last.op = "complete" /\ last.run.workflow_type = "simple"
        /\ HasEvent(last.run, "completed", STAGING)) =>
        (Count(last.run, "created") = 1 /\ Count(last.run, "deleted") = 1)

\* C16: for the single-step workflow staging -> complete, a run whose job
\* completes has the provenance 'New ... run accepted', 'staging running',
\* 'staging complete', and 'run complete' as the last entry when it is
\* removed; one job is created for it, and one job is deleted unless it is
\* a debug run, whose job is left on the cluster
C16_SingleStepRun ==
    \A run \in Observed :
        (run.workflow_type = "simple" /\ HasEvent(run, "completed", STAGING)) =>
            /\ run.job_type = JT_COMPLETE
            /\ Count(run, "created") = 1
            /\ Count(run, "deleted") = (IF run.debug THEN 0 ELSE 1)
            /\ Cardinality(Launches(run, STAGING)) = 1
            /\ IF Removed /\ run = last.run
               THEN /\ last.op = "complete"
                    /\ run.status_prov = StagingCompleted(run) \o <<RunComplete>>
               ELSE run.status_prov = StagingCompleted(run)

\* C16 witness: a run that is not a debug run went through the single-step
\* workflow and is removed
C16_Witness ==
    /\ last.op = "complete" /\ last.run.workflow_type = "simple" /\ ~last.run.debug
    /\ last.run.hist = <<<<"created", STAGING>>, <<"deleted", STAGING>>, <<"completed", STAGING>>>>
    /\ Len(last.run.status_prov) = 4

\* C17: when a step fails in a run whose workflow has no final-staging
\* step, no further step is launched for the run, and the run is removed
\* by the COMPLETE handling with 'No cleanup occurred.' in its provenance
C17_NoCleanupMarksComplete ==
    \A run \in Observed :
        (FINAL_STAGING \notin DOMAIN job_defs[run.workflow_type] /\ HadFailure(run)) =>
            /\ \A i, j \in 1..Len(run.hist) :
                   (i < j /\ run.hist[i][1] \in Failures) =>
                       run.hist[j][1] \notin {"created", "not created"}
            /\ (Removed /\ run = last.run) =>
                   /\ last.op = "complete"
                   /\ \E i \in 1..Len(run.status_prov) : run.status_prov[i] = ErrorNoCleanup

\* C18: once a step of a run has failed (its job reported Failed or timed
\* out, not found, not deleted, or not created), no job of that job type
\* is launched again for that run
C18_NoRetry ==
    \A run \in Observed :
        \A i, j \in 1..Len(run.hist) :
            (i < j /\ run.hist[i][1] \in Failures) =>
                run.hist[j] \notin {<<"created", run.hist[i][2]>>, <<"not created", run.hist[i][2]>>}

\* C18 witness: the final-staging step of a run failed, a later tick
\* handled the run and removed it
C18_Witness ==
    /\ last.op = "complete"
    /\ \E i \in 1..Len(last.run.hist) :
           last.run.hist[i][1] \in Failures /\ last.run.hist[i][2] = FINAL_STAGING
    /\ HasEvent(last.run, "failed", STAGING)

\* a step of the loop over the run list: the run at the iterator is handled
Handling == pc = "runs" /\ idx <= Len(run_list) /\ last'.run.id = run_list[idx].id

\* the events the handled run gained in the step
NewEvents == SubSeq(last'.run.hist, Len(run_list[idx].hist) + 1, Len(last'.run.hist))

\* the number of entries the step appended to the status_prov of the run
Appended == Len(last'.run.status_prov) - Len(run_list[idx].status_prov)

Events(seq, kinds) == Cardinality({i \in 1..Len(seq) : seq[i][1] \in kinds})

\* C19 as stated: the step that handles a run appends one entry for each
\* state transition (the launch of a step, the completion of a step, the
\* ERROR handling, the COMPLETE handling) and one for each error detected (a
\* failure of a job, an exception of a handler)
C19_OneAppendEach ==
    [][Handling =>
        Appended = (IF Events(NewEvents, {"created"}) > 0 THEN 1 ELSE 0)
                   + Events(NewEvents, {"completed"})
                   + (IF last'.op \in {"error", "complete"} THEN 1 ELSE 0)
                   + Events(NewEvents, Failures)
                   + (IF last'.op \in {"handler_exception", "cleanup_exception"} THEN 1 ELSE 0)]_vars

\* C19: the step that handles a run only appends to its status_prov: one
\* entry for each job created, for each job reported Failed and for each
\* step completed, one for a handler exception, one for the ERROR handling
\* and one for the COMPLETE handling; a job that is not found, not deleted
\* or not created and a cleanup exception append nothing
C19_Appends ==
    [][Handling =>
        /\ IsPrefix(run_list[idx].status_prov, last'.run.status_prov)
        /\ Appended = Events(NewEvents, {"created", "failed", "completed"})
                      + (IF last'.op \in {"error", "complete", "handler_exception"} THEN 1 ELSE 0)]_vars

\* C19 witness: a job was not found, which appended nothing, and the ERROR
\* handling of the next tick appended 'error detected'
C19_Witness ==
    /\ last.op = "error" /\ HasEvent(last.run, "not found", STAGING)
    /\ last.run.status_prov = <<Accepted("New"), <<STAGING, "running">>, ErrorDetected>>

\* C19 witness: a job was reported Failed, which appended 'staging failed',
\* and the ERROR handling of the next tick appended 'error detected'
C19_WitnessFailed ==
    /\ last.op = "error" /\ HasEvent(last.run, "failed", STAGING)
    /\ last.run.status_prov =
           <<Accepted("New"), <<STAGING, "running">>, <<STAGING, "failed">>, ErrorDetected>>

\* C20: when the launch loop of a NEW run fails to create one of the jobs
\* of its list, the status of the run after the loop is ERROR
C20_CreateFailureIsError ==
    [][(Handling /\ last'.op \in {"handled", "handler_exception"}
            /\ Events(NewEvents, {"not created"}) > 0)
        => last'.launched = S_ERROR]_vars

\* C21: when the iteration over the run list of a tick ends, every run that
\* was in the list when the iteration started has been handled in the tick
C21_EveryRunHandled ==
    (pc = "runs" /\ idx > Len(run_list)) => tick.start \subseteq tick.handled

\* C22: a run whose final-staging step failed, or whose ERROR handling met
\* a final-staging step record, launches final-staging once and no step
\* after it, and is removed by the COMPLETE handling with the 'incomplete
\* cleanup' note in its provenance
C22_IncompleteCleanup ==
    \A run \in Observed :
        (FINAL_STAGING \in DOMAIN run.steps /\ run.job_type \in {JT_ERROR, JT_COMPLETE}) =>
            /\ Cardinality(Launches(run, FINAL_STAGING)) = 1
            /\ \A i, j \in 1..Len(run.hist) :
                   (i < j /\ run.hist[i][2] = FINAL_STAGING) =>
                       run.hist[j][1] \notin {"created", "not created"}
            /\ run.job_type = JT_COMPLETE =>
                   \E i \in 1..Len(run.status_prov) : run.status_prov[i] = ErrorIncompleteCleanup
            /\ (Removed /\ run = last.run) => last.op = "complete"

\* the handled run reported activity: handle_run returned for a run that
\* was NEW or RUNNING
ReportedActivity == last'.op = "handled" /\ run_list[idx].status \in {S_NEW, S_RUNNING}

\* C23: the activity flag of a tick is cleared by every run that reports
\* activity and by nothing else, whatever the order of the runs and whether
\* other runs raise or are handled as COMPLETE or ERROR; at the end of the
\* tick no_activity_counter is set to 0 when the flag is cleared and is
\* incremented otherwise (and set back to MAX_NO_ACTIVITY_COUNT - 1 when the
\* increment reaches MAX_NO_ACTIVITY_COUNT)
C23_ActivityCounter ==
    [][/\ (pc = "tick" /\ pc' # "tick" /\ pc' # "crashed") => no_activity'
       /\ Handling => (no_activity' = (no_activity /\ ~ReportedActivity))
       /\ (pc = "runs" /\ pc' = "tick") =>
              no_activity_counter' =
                  IF ~no_activity THEN 0
                  ELSE IF no_activity_counter + 1 >= MAX_NO_ACTIVITY_COUNT
                       THEN MAX_NO_ACTIVITY_COUNT - 1
                       ELSE no_activity_counter + 1]_vars

\* C23 witness: of two runs of a tick the first reported activity and the
\* second raised an exception, and the counter is 0 after the tick
C23_Witness ==
    /\ last.op = "sleep" /\ ~no_activity /\ no_activity_counter = 0
    /\ Len(run_list) = 2
    /\ run_list[1].status = S_RUNNING
    /\ run_list[2].job_type = JT_ERROR
    /\ run_list[2].status_prov[Len(run_list[2].status_prov)] = HandlerError

\* C24: the handling of a NEW run whose current step is a server process,
\* with the workflow in the catalog, creates the job and the Service of the
\* step and moves the run on to NEXT_JOB_TYPE of that step
C24_ServerStepAdvances ==
    [][(Handling /\ last'.op \in {"handled", "handler_exception"}
            /\ run_list[idx].status = S_NEW
            /\ is_server_process(run_list[idx].job_type)
            /\ run_list[idx].workflow_type \in DOMAIN k8s_job_configs)
        => /\ Job(run_list[idx], run_list[idx].job_type) \in cluster' \cap services'
           /\ last'.run.job_type
                  = k8s_job_configs[run_list[idx].workflow_type][run_list[idx].job_type].NEXT_JOB_TYPE]_vars

\* C25: when get_job_configs meets a PARALLEL entry that is no job type,
\* every active run of the workflow is in the ERROR state afterwards
C25_UnknownParallelErrorsRun ==
    last.op = "crash" =>
        \A i \in 1..Len(run_list) :
            run_list[i].workflow_type \in DOMAIN job_defs => run_list[i].status = S_ERROR

\* the job lookup of the handled RUNNING run raised: the catalog holds the
\* workflow and the run holds the step record, so nothing else could raise
LookupRaised ==
    /\ Handling /\ last'.op = "handler_exception"
    /\ run_list[idx].status = S_RUNNING
    /\ run_list[idx].workflow_type \in DOMAIN k8s_job_configs
    /\ run_list[idx].job_type \in DOMAIN run_list[idx].steps

\* C26: when the job lookup of a RUNNING run raises a cluster API error, the
\* status, the job type and the step records of the run are the same after
\* the handling as before
C26_LookupErrorKeepsRun ==
    [][LookupRaised =>
        /\ last'.run.status = run_list[idx].status
        /\ last'.run.job_type = run_list[idx].job_type
        /\ last'.run.steps = run_list[idx].steps]_vars

\* C27: in a tick whose refresh of the job definitions got the sentinel -1,
\* the handling of a run that is not COMPLETE changes no run (status, job
\* type, membership of the run list) and creates or deletes no job
C27_SentinelIsNoWork ==
    [][(Handling /\ k8s_job_configs = NoJobDefs /\ run_list[idx].job_type # JT_COMPLETE)
        => (run_list' = run_list /\ cluster' = cluster /\ services' = services)]_vars

\* C28: when the lookup reports the job of the current step Failed, the
\* same handling deletes the job from the cluster, unless the run is a debug
\* run or the step a server process, and sets the status to ERROR; when the
\* job is not found, the status becomes ERROR and nothing is deleted
C28_FailedJobDeleted ==
    [][(Handling /\ last'.op = "handled") =>
        LET run == run_list[idx]
            job_type == run.job_type
        IN  /\ Events(NewEvents, {"failed"}) > 0 =>
                   /\ NewEvents[Len(NewEvents)] = <<"failed", job_type>>
                   /\ last'.run.status = S_ERROR
                   /\ last'.run.job_type = JT_ERROR
                   /\ (~run.debug /\ ~is_server_process(job_type)) =>
                          /\ Job(run, job_type) \notin cluster'
                          /\ Len(NewEvents) >= 2
                          /\ NewEvents[Len(NewEvents) - 1] = <<"deleted", job_type>>
                   /\ (run.debug \/ is_server_process(job_type)) =>
                          /\ Job(run, job_type) \in cluster'
                          /\ Events(NewEvents, {"deleted"}) = 0
            /\ Events(NewEvents, {"not found"}) > 0 =>
                   /\ NewEvents[Len(NewEvents)] = <<"not found", job_type>>
                   /\ last'.run.status = S_ERROR
                   /\ last'.run.job_type = JT_ERROR
                   /\ Events(NewEvents, {"deleted"}) = 0
                   /\ cluster \subseteq cluster' \cup {Job(run, job_type)}]_vars

\* C28 witness: the job of a run that is not a debug run was reported
\* Failed, deleted, and the run is in ERROR
C28_Witness ==
    /\ last.op = "handled" /\ ~last.run.debug
    /\ last.run.status = S_ERROR
    /\ Len(last.run.hist) >= 3
    /\ SubSeq(last.run.hist, Len(last.run.hist) - 1, Len(last.run.hist))
           = <<<<"deleted", STAGING>>, <<"failed", STAGING>>>>
    /\ Job(last.run, STAGING) \notin cluster

\* C29: get_db_connection returns only from a connection check that
\* succeeded, goes through the back-off of BACKOFF seconds after every
\* iteration that did not get a good connection, and returns in the end
\* when the database comes to accept connections
C29_ConnectionBlocks ==
    /\ [][/\ (pg.pc # "returned" /\ pg'.pc = "returned") =>
                 (pg.pc \in {"check", "recheck"} /\ check_db_connection(pg) /\ pg'.good_conn)
          /\ (pg.pc \in {"connect", "recheck"} /\ pg'.pc \notin {pg.pc, "recheck", "returned"}) =>
                 pg'.pc = "sleep"
          /\ (pg.pc = "sleep" /\ pg'.pc # "sleep") =>
                 (pg'.pc = "check" /\ (pg.sleeps < MaxSleeps => pg'.waited = pg.waited + BACKOFF))
          /\ pg.pc = "idle" => pg'.pc \in {"idle", "check"}]_vars
    /\ []((pg.waited = pg.sleeps * BACKOFF))
    /\ ((pg.pc \in {"check", "connect", "recheck", "sleep"}) ~> (pg.pc = "returned"))

\* C29 witness: a call found the database down, backed off twice and then
\* got its connection
C29_Witness ==
    /\ pg.pc = "returned" /\ pg.sleeps = 2 /\ pg.waited = 2 * BACKOFF
    /\ pg.call = "update_job_status" /\ pg.outages >= 1

\* the delete_job call of the step, for a run whose current step is a
\* server process with a step record
ServerDelete ==
    /\ pc = "delete_job" /\ pc' = "deleted"
    /\ is_server_process(run_list[1].job_type)
    /\ run_list[1].job_type \in DOMAIN run_list[1].steps

C30_WitnessKept ==
    /\ last.op = "delete_job" /\ ~last.force /\ last.run.job_type = DATABASE
    /\ ~last.run.debug /\ last.run.status = S_RUNNING
    /\ DATABASE \in DOMAIN last.run.steps
    /\ Job(last.run, DATABASE) \in cluster \cap services
    /\ last.ret_val = "success"

\* C31: a forced delete_job for a server process whose Service is gone
\* from the cluster returns without raising and removes the Job, for a run
\* that is neither a debug run nor in ERROR
C31_JobDeletedWithoutService ==
    [][(ServerDelete /\ last'.force
            /\ ~run_list[1].debug /\ run_list[1].status # S_ERROR
            /\ Job(run_list[1], run_list[1].job_type) \in cluster \ services)
        => Job(run_list[1], run_list[1].job_type) \notin cluster']_vars

\* C32: the handling of a debug run deletes no job and no service: the
\* run gains no 'deleted' and no 'delete failed' event, a job leaves the
\* cluster only when the lookup does not find it, and a step whose job is
\* reported Complete is recorded complete and the run moves to the step
\* that follows it
C32_DebugRunDeletesNothing ==
    [][(Handling /\ run_list[idx].debug) =>
        LET run == run_list[idx]
        IN  /\ Events(NewEvents, {"deleted", "delete failed"}) = 0
            /\ services \subseteq services'
            /\ \A job \in cluster \ cluster' :
                   job = Job(run, run.job_type) /\ Events(NewEvents, {"not found"}) > 0
            /\ Events(NewEvents, {"completed"}) > 0 =>
                   /\ last'.op = "handled"
                   /\ NewEvents[Len(NewEvents)] = <<"completed", run.job_type>>
                   /\ Job(run, run.job_type) \in cluster'
                   /\ last'.run.job_type = job_defs[run.workflow_type][run.job_type].NEXT_JOB_TYPE
                   /\ last'.run.status_prov[Len(last'.run.status_prov)] = <<run.job_type, "complete">>]_vars

\* C32 witness: a debug run went through staging and final-staging, was
\* handled as COMPLETE, and both jobs are on the cluster
C32_Witness ==
    /\ last.op = "complete" /\ last.run.debug
    /\ HasEvent(last.run, "completed", STAGING)
    /\ HasEvent(last.run, "completed", FINAL_STAGING)
    /\ {Job(last.run, STAGING), Job(last.run, FINAL_STAGING)} \subseteq cluster

NonEmpty(arg) == arg # ""

\* C33: the command of the container of every COMMAND_MATRIX entry is
\* COMMAND_LINE followed by the entry, without the empty strings and in the
\* same order
C33_NoEmptyArgument ==
    last.op = "execute" =>
        \A i \in 1..Len(last.containers) :
            last.containers[i]
                = SelectSeq(last.run.steps[last.run.job_type].COMMAND_LINE
                                \o last.run.steps[last.run.job_type].COMMAND_MATRIX[i], NonEmpty)

\* C37: when execute returns no job id for a step of which the cluster held
\* neither the job nor the Service, it holds neither of them afterwards
C37_NoOrphanAfterFailedCreate ==
    [][(pc = "execute" /\ pc' = "executed" /\ last'.job_id = None
            /\ Job(run_list[1], run_list[1].job_type) \notin cluster \cup services)
        => Job(run_list[1], run_list[1].job_type) \notin cluster' \cup services']_vars

\* C34: the handling that creates the job of a run's step, fails to create
\* none and does not raise, does not look the job up: the run gains no event of a
\* lookup or a delete, the job stays on the cluster and the run stays on the
\* step
C34_InspectedNextTick ==
    [][(Handling /\ last'.op = "handled" /\ Len(NewEvents) > 0
            /\ NewEvents[1] = <<"created", run_list[idx].job_type>>
            /\ Events(NewEvents, {"not created"}) = 0)
        => /\ Events(NewEvents, {"completed", "failed", "not found", "deleted", "delete failed"}) = 0
           /\ Job(run_list[idx], run_list[idx].job_type) \in cluster'
           /\ last'.run.job_type = run_list[idx].job_type]_vars

\* C35: a handle_run call that returns with the run RUNNING and without an
\* event of a lookup result or a delete (the job of the step was found
\* Running or Pending, its pod not Failed) leaves the run as it was, creates
\* and deletes nothing on the cluster and writes nothing to the database
C35_RunningJobIsFrame ==
    [][(Handling /\ last'.op = "handled" /\ last'.run.status = S_RUNNING
            /\ Events(NewEvents, {"completed", "failed", "not found", "deleted", "delete failed"}) = 0)
        => /\ last'.run = run_list[idx]
           /\ run_list' = run_list
           /\ cluster' = cluster /\ services' = services
           /\ db' = db /\ db_prov' = db_prov]_vars

\* C36: self.k8s_job_configs holds the job definitions of the database, or
\* nothing, in every state and changes only in the refresh at the head of a
\* tick; the step records of every run are the templates of the database
\* populated with the id of that run, once
C36_CatalogUnchanged ==
    /\ [](/\ k8s_job_configs \in {job_defs, NoJobDefs}
          /\ \A i \in 1..Len(run_list) : \A job_type \in DOMAIN run_list[i].steps :
                 run_list[i].steps[job_type]
                     = populate(job_defs[run_list[i].workflow_type][job_type], run_list[i].id,
                                get_base_command_line(run_list[i], job_type)))
    /\ [][k8s_job_configs' # k8s_job_configs => last'.op = "get_incomplete_runs"]_vars

\* C36 witness: two runs of the same workflow hold the record of the staging
\* step, each with its own id in JOB_NAME, and the catalog holds the
\* template
C36_Witness ==
    /\ Len(run_list) = 2
    /\ \A i \in 1..2 :
           /\ STAGING \in DOMAIN run_list[i].steps
           /\ run_list[i].steps[STAGING].JOB_NAME = <<"job-", run_list[i].id>>
           /\ run_list[i].steps[STAGING].DATA_VOLUME_NAME = <<"vol-", run_list[i].id>>
    /\ run_list[1].id # run_list[2].id
    /\ run_list[1].workflow_type = run_list[2].workflow_type
    /\ k8s_job_configs = job_defs
    /\ k8s_job_configs[run_list[1].workflow_type][STAGING].JOB_NAME = <<"job-">>

\* the iterator is at a run handle_run is called for
AtHandleRun ==
    /\ pc = "runs" /\ idx <= Len(run_list)
    /\ run_list[idx].job_type \notin {JT_COMPLETE, JT_ERROR}

\* the last step was a handle_run call for the run
Lookup(id) == last.op \in {"handled", "handler_exception"} /\ last.run.id = id

\* C38: when the call of handle_run for the run at the iterator is not put
\* off for ever, and the lookups of a run's jobs do not go on for ever with
\* all but finitely many of them finding the job Running or Pending, every
\* run that is in the run list leaves it
C38_EveryRunIsDropped ==
    \A id \in RunIds :
        ([]<>(~AtHandleRun) /\ (<>[](~(Lookup(id) /\ last.polled)) \/ []<>(Lookup(id) /\ ~last.polled)))
            => (Active(id) ~> ~Active(id))

\* C39: when a run leaves the run list, the value its column holds, the one
\* the COMPLETE handling wrote or the one written before the step that
\* removed it, contains 'run complete'
C39_RunCompleteWritten ==
    [][\A id \in RunIds :
        (Active(id) /\ ~Active(id)') =>
            \E i \in 1..Len(IF last'.op = "complete" THEN last'.written ELSE db[id]) :
                (IF last'.op = "complete" THEN last'.written ELSE db[id])[i] = RunComplete]_vars

====
